---- MODULE Spec2Model ----
(***************************************************************************)
(* Model of the SCED finder backend (src/src/server.ts): an Express app    *)
(* whose handlers run knex queries against two PostgreSQL tables,          *)
(* sced_course_details and course_certification_mappings.                  *)
(*                                                                         *)
(* A handler is a sequence of steps, one per database statement it awaits; *)
(* the JavaScript that runs between two awaits touches only the request's  *)
(* own locals and is folded into the step of the statement before it.      *)
(* Requests of different slots interleave at statement granularity.        *)
(***************************************************************************)
EXTENDS Integers, Sequences, FiniteSets, TLC

(***************************************************************************)
(* Bounds of the model.                                                    *)
(***************************************************************************)
NumReqs == 2        \* request slots; each slot serves one request
MaxRows == 2        \* data lines of an uploaded CSV file
MaxPage == 2        \* largest page number a search is issued with
MaxLimit == 2       \* largest explicit limit a search is issued with

Reqs == 1..NumReqs

(***************************************************************************)
(* JavaScript / SQL values.                                                *)
(***************************************************************************)
\* the JavaScript value undefined (a missing row key, an empty first())
undefined == "<undefined>"
\* SQL NULL, what knex stores for an undefined column value
NULL == "<NULL>"
\* absence of a LIMIT clause in a knex builder
NoLimit == -1

Truthy(v) == v # undefined /\ v # ""

\* a || b
OrElse(a, b) == IF Truthy(a) THEN a ELSE b

\* row[key]
Get(row, key) == IF key \in DOMAIN row THEN row[key] ELSE undefined

Min(a, b) == IF a < b THEN a ELSE b

\* Math.ceil(a / b) for a >= 0, b >= 1
Ceil(a, b) == (a + b - 1) \div b

(***************************************************************************)
(* Text: ILIKE as PostgreSQL evaluates it.                                 *)
(***************************************************************************)
UpperChars == "ABCDEFGHIJKLMNOPQRSTUVWXYZ"
LowerChars == "abcdefghijklmnopqrstuvwxyz"

LowerMap ==
    [c \in {SubSeq(UpperChars, i, i) : i \in 1..26} |->
        LET i == CHOOSE j \in 1..26 : SubSeq(UpperChars, j, j) = c
        IN  SubSeq(LowerChars, i, i)]

LowerChar(c) == IF c \in DOMAIN LowerMap THEN LowerMap[c] ELSE c

CharAt(s, i) == SubSeq(s, i, i)

\* s LIKE p, compared case-insensitively: % matches any run of characters,
\* _ matches exactly one character, anything else matches itself.  A state
\* k of the matcher means that the first k characters of p are matched.
LikeClosure(p, S) ==
    {k \in 0..Len(p) : \E j \in S : j <= k /\ \A t \in (j + 1)..k : CharAt(p, t) = "%"}

LikeStep(p, S, c) ==
    LikeClosure(p,
        {k \in 1..Len(p) :
            \/ k \in S /\ CharAt(p, k) = "%"
            \/ /\ (k - 1) \in S
               /\ CharAt(p, k) # "%"
               /\ (CharAt(p, k) = "_" \/ LowerChar(CharAt(p, k)) = LowerChar(c))})

RECURSIVE LikeRun(_, _, _, _, _)
\* the states reached from S over the characters i..j of s
LikeRun(p, S, s, i, j) ==
    IF i > j THEN S
    ELSE IF i = j THEN LikeStep(p, S, CharAt(s, i))
    ELSE LET mid  == (i + j) \div 2
             left == LikeRun(p, S, s, i, mid)
         IN  IF left = {} THEN {} ELSE LikeRun(p, left, s, mid + 1, j)

LikeMatch(s, p) == Len(p) \in LikeRun(p, LikeClosure(p, {0}), s, 1, Len(s))

\* column ILIKE pattern; a NULL column never matches
ILike(v, p) == v # NULL /\ LikeMatch(v, p)

(***************************************************************************)
(* Sequence helpers.                                                       *)
(***************************************************************************)
SeqRange(s) == {s[i] : i \in 1..Len(s)}

\* rows [offset+1 .. offset+limit] of a result set (OFFSET then LIMIT)
Window(rows, lim, off) ==
    LET from == off + 1
        to   == IF lim = NoLimit THEN Len(rows) ELSE Min(Len(rows), off + lim)
    IN  IF from > to THEN <<>> ELSE SubSeq(rows, from, to)

(***************************************************************************)
(* decodeURIComponent, and the decoding Express applies to a path          *)
(* parameter before the handler sees it.                                   *)
(***************************************************************************)
URIError == "<URIError>"

\* the percent escapes that occur in the request paths of the model
HexCodes == <<"20", "25", "28", "29">>
HexChars == <<" ", "%", "(", ")">>

RECURSIVE decodeURIComponent(_)
decodeURIComponent(s) ==
    IF s = "" THEN ""
    ELSE IF Head(s) # "%"
         THEN LET rest == decodeURIComponent(Tail(s))
              IN  IF rest = URIError THEN URIError ELSE Head(s) \o rest
    ELSE IF Len(s) >= 3 /\ \E i \in 1..Len(HexCodes) : HexCodes[i] = SubSeq(s, 2, 3)
         THEN LET i    == CHOOSE j \in 1..Len(HexCodes) : HexCodes[j] = SubSeq(s, 2, 3)
                  rest == decodeURIComponent(SubSeq(s, 4, Len(s)))
              IN  IF rest = URIError THEN URIError ELSE HexChars[i] \o rest
    ELSE URIError

(***************************************************************************)
(* Seed rows of POST /api/v1/setup (and of the migration file).            *)
(***************************************************************************)
Course(code, codeDesc, desc, area, level, cte) ==
    [course_code |-> code, course_code_description |-> codeDesc,
     course_description |-> desc, course_subject_area |-> area,
     course_level |-> level, cte_indicator |-> cte]

Mapping(code, certCode, certDesc) ==
    [course_code |-> code, certification_area_code |-> certCode,
     certification_area_description |-> certDesc]

SeedCourses ==
    << Course("03001", "Biology",
              "This course provides students with a comprehensive study of living organisms and life processes.",
              "Science", "High School", "No"),
       Course("20114", "Introduction to Agriculture",
              "This course introduces students to the world of agriculture and its career opportunities.",
              "Agriculture, Food & Natural Resources", "High School", "Yes"),
       Course("21101", "Automotive Technology I",
              "This course introduces students to automotive systems and basic repair procedures.",
              "Transportation, Distribution & Logistics", "High School", "Yes") >>

SeedMappings ==
    << Mapping("03001", "5010", "Biology (Grades 5-9)"),
       Mapping("03001", "5020", "Biology (Grades 7-12)"),
       Mapping("20114", "8010", "Agriculture (Grades 5-9)"),
       Mapping("21101", "9010", "Technology Education (Grades 5-9)") >>

(***************************************************************************)
(* Uploaded files: a header line and data lines, and what csv-parser       *)
(* makes of them.                                                          *)
(***************************************************************************)
MappingHeader ==
    <<"Course Code (Course ID)", "Certification Area Code", "certification_area_description">>
CourseHeader ==
    <<"course_code", "Course Code Description", "CTE_IND">>

\* a header with the columns of both kinds of file
MixedHeader ==
    <<"course_code", "Course Code Description", "Certification Area Code",
      "certification_area_description">>

MappingLines ==
    { <<"20114", "9010", "Technology Education (Grades 5-9)">>,
      <<"20114", "9020", "100% Online">>,
      <<"99999", "9010", "Technology Education (Grades 5-9)">>,
      <<"", "9010", "Technology Education (Grades 5-9)">> }
CourseLines ==
    { <<"99999", "Robotics", "Yes">>,
      <<"", "Robotics", "Yes">> }
\* a full line, and a line that ends after its second cell
MixedLines ==
    { <<"99999", "Robotics", "9010", "Technology Education (Grades 5-9)">>,
      <<"99999", "Robotics">> }

SeqsUpTo(S, n) == UNION {[1..k -> S] : k \in 0..n}

\* a file with no header line at all, header-only files, and files with
\* up to MaxRows data lines
EmptyFile == [header |-> <<>>, lines |-> <<>>]
Files ==
    {EmptyFile}
    \cup {[header |-> MappingHeader, lines |-> l] : l \in SeqsUpTo(MappingLines, MaxRows)}
    \cup {[header |-> CourseHeader, lines |-> l] : l \in SeqsUpTo(CourseLines, MaxRows)}
    \cup {[header |-> MixedHeader, lines |-> l] : l \in SeqsUpTo(MixedLines, MaxRows)}

\* csvParser(): one object per data line, keyed by the header cells
csvParser(file) ==
    [i \in 1..Len(file.lines) |->
        LET line == file.lines[i]
            n    == Min(Len(file.header), Len(line))
        IN  [k \in {file.header[j] : j \in 1..n} |->
                line[CHOOSE j \in 1..n : file.header[j] = k]]]

(***************************************************************************)
(* multer: what upload.single('file') lets through to the handler.         *)
(***************************************************************************)
\* limits.fileSize: 50 * 1024 * 1024 (server.ts:51)
FileSizeLimit == 52428800

\* String.prototype.endsWith
endsWith(s, suffix) ==
    Len(s) >= Len(suffix) /\ SubSeq(s, Len(s) - Len(suffix) + 1, Len(s)) = suffix

\* mutant: the filter lets every file through
fileFilter_AcceptsAll(file) == TRUE

\* fileFilter (server.ts:43-49): TRUE for cb(null, true)
fileFilter(file) == file.mimetype = "text/csv" \/ endsWith(file.originalname, ".csv")

\* the file part is stored and handed to the handler
multerAccepts(file) == fileFilter(file) /\ file.size <= FileSizeLimit

\* the parts of an upload other than its content
CsvPart == [mimetype |-> "text/csv", originalname |-> "courses.csv", size |-> 1024]

\* a file whose import would add a row to a database that has the tables
ProbeFile ==
    [header |-> MappingHeader, lines |-> << <<"20114", "9020", "100% Online">> >>]

\* the multipart requests of the model: every file as a small CSV upload,
\* and one file under every combination of type, name and size
UploadRequests ==
    {[file |-> f] @@ CsvPart : f \in Files}
    \cup {[file |-> ProbeFile, mimetype |-> m, originalname |-> n, size |-> sz] :
             m \in {"text/csv", "application/pdf"},
             n \in {"courses.csv", "courses.pdf"},
             sz \in {1024, FileSizeLimit, FileSizeLimit + 1}}

(***************************************************************************)
(* Request inputs.                                                         *)
(***************************************************************************)
\* limit = 20 when the query string carries none (server.ts:82)
DefaultLimit == 20

SearchTerms == {"", "bio", "bi_l"}
PageParams  == 1..MaxPage
LimitParams == (1..MaxLimit) \cup {DefaultLimit}
CertSearchTerms == {"", "*", "tech"}
\* :code path segments
CourseCodes == {"03001", "99999", "00000"}
\* :name path segments as they arrive on the wire
CteNames == {"Technology%20Education%20(Grades%205-9)", "Agriculture%20(Grades%205-9)",
             "100%25%20Online"}

(***************************************************************************)
(* State.                                                                  *)
(***************************************************************************)
VARIABLES
    schema,                          \* which tables and constraints exist
    sced_course_details,             \* rows of the course table, heap order
    course_certification_mappings,   \* rows of the mapping table, heap order
    uploads,                         \* requests whose temp file is in uploads/
    pc,                              \* per request: the statement it awaits
    req,                             \* per request: endpoint and parameters
    loc,                             \* per request: the handler's locals
    res,                             \* per request: the response sent
    writer,                          \* history: who inserted each table row
    hist,                            \* history: per request, order and row events
    snap                             \* history: tables when the response was sent

tables == <<schema, sced_course_details, course_certification_mappings>>
vars == <<schema, sced_course_details, course_certification_mappings, uploads,
          pc, req, loc, res, writer, hist, snap>>

NoRequest  == [kind |-> "none"]
NoLocals   == [none |-> TRUE]
NoResponse == [status |-> 0]
NoSnap     == [taken |-> FALSE]
NoHist     == [doneBefore |-> {}, fresh |-> FALSE, visited |-> <<>>, failedRows |-> {},
               constraintError |-> "none", handler |-> FALSE, parsed |-> FALSE,
               error |-> "none"]

\* writer of the rows that were in the tables before the first request
Preexisting == 0

FreshSchema    == [courses |-> FALSE, mappings |-> FALSE, unique |-> FALSE, fk |-> FALSE]
\* migrations/001_create_tables.sql: both tables, the foreign key, no
\* unique constraint, and the sample rows
MigratedSchema == [courses |-> TRUE, mappings |-> TRUE, unique |-> FALSE, fk |-> TRUE]
\* what one POST /api/v1/setup leaves on a database without tables
SetUpSchema    == [courses |-> TRUE, mappings |-> TRUE, unique |-> TRUE, fk |-> FALSE]

WithIds(rows, from) == [i \in 1..Len(rows) |-> [id |-> from + i] @@ rows[i]]

Init ==
    /\ \/ /\ schema = FreshSchema
          /\ sced_course_details = <<>>
          /\ course_certification_mappings = <<>>
          /\ writer = [courses |-> <<>>, mappings |-> <<>>]
       \/ /\ schema \in {MigratedSchema, SetUpSchema}
          /\ sced_course_details = SeedCourses
          /\ course_certification_mappings = WithIds(SeedMappings, 0)
          /\ writer = [courses |-> [i \in 1..Len(SeedCourses) |-> Preexisting],
                       mappings |-> [i \in 1..Len(SeedMappings) |-> Preexisting]]
    /\ uploads = {}
    /\ pc = [r \in Reqs |-> "idle"]
    /\ req = [r \in Reqs |-> NoRequest]
    /\ loc = [r \in Reqs |-> NoLocals]
    /\ res = [r \in Reqs |-> NoResponse]
    /\ hist = [r \in Reqs |-> NoHist]
    /\ snap = [r \in Reqs |-> NoSnap]

(***************************************************************************)
(* The storage engine: what a statement returns or why it fails.           *)
(***************************************************************************)
CourseKeyExists(courses, code) ==
    \E i \in 1..Len(courses) : courses[i].course_code = code

MappingKeyExists(mappings, code, certCode) ==
    \E i \in 1..Len(mappings) :
        /\ mappings[i].course_code = code
        /\ mappings[i].certification_area_code = certCode

\* mutant: the primary key of the course table is not enforced
DuplicateCourseCodes_Never(rows) == FALSE

\* two rows with one course_code: what PRIMARY KEY (course_code) rejects
DuplicateCourseCodes(rows) ==
    \E i, j \in 1..Len(rows) : i # j /\ rows[i].course_code = rows[j].course_code

DuplicateMappingKeys(rows) ==
    \E i, j \in 1..Len(rows) :
        /\ i # j
        /\ rows[i].course_code = rows[j].course_code
        /\ rows[i].certification_area_code = rows[j].certification_area_code

\* INSERT INTO sced_course_details fails: no table, or the primary key
InsertCoursesFails(sch, courses, rows) ==
    \/ ~sch.courses
    \/ DuplicateCourseCodes(courses \o rows)

\* INSERT INTO course_certification_mappings fails: no table, the unique
\* constraint, or the foreign key
InsertMappingsFails(sch, courses, mappings, rows) ==
    \/ ~sch.mappings
    \/ sch.unique /\ DuplicateMappingKeys(mappings \o rows)
    \/ sch.fk /\ \E i \in 1..Len(rows) : ~CourseKeyExists(courses, rows[i].course_code)

\* why ALTER TABLE ... ADD CONSTRAINT unique_course_cert fails, if it does:
\* no table, the constraint exists, or the rows already violate it
AddConstraintError(sch, mappings) ==
    IF ~sch.mappings THEN "no table"
    ELSE IF sch.unique THEN "exists"
    ELSE IF DuplicateMappingKeys(mappings) THEN "duplicates"
    ELSE "none"

\* the message of the error a statement on a missing table throws
RelationMissing(table) == "relation " \o table \o " does not exist"

\* the message of the error a rejected INSERT throws
ConstraintViolated(name) == "violates constraint " \o name

\* the message INSERT INTO sced_course_details fails with, or "none"
InsertCoursesError(sch, courses, rows) ==
    IF ~sch.courses THEN RelationMissing("sced_course_details")
    ELSE IF DuplicateCourseCodes(courses \o rows) THEN ConstraintViolated("sced_course_details_pkey")
    ELSE "none"

\* the message INSERT INTO course_certification_mappings fails with, or "none"
InsertMappingsError(sch, courses, mappings, rows) ==
    IF ~sch.mappings THEN RelationMissing("course_certification_mappings")
    ELSE IF sch.unique /\ DuplicateMappingKeys(mappings \o rows)
    THEN ConstraintViolated("unique_course_cert")
    ELSE IF sch.fk /\ \E i \in 1..Len(rows) : ~CourseKeyExists(courses, rows[i].course_code)
    THEN ConstraintViolated("course_certification_mappings_course_code_fkey")
    ELSE "none"

\* mutant: the statement replaces the content of the table
InsertRows_Replacing(table, rows) == rows

\* the table after a successful INSERT of rows: the rows it had, then rows
InsertRows(table, rows) == table \o rows

\* the value knex binds for a column: undefined becomes NULL (DEFAULT)
Column(v) == IF v = undefined THEN NULL ELSE v

(***************************************************************************)
(* Request bookkeeping.                                                    *)
(***************************************************************************)
\* slots are interchangeable: they are taken in order
CanStart(r) == pc[r] = "idle" /\ (IF r = 1 THEN TRUE ELSE pc[r - 1] # "idle")

Started(r, h) == [h EXCEPT !.doneBefore = {q \in Reqs : pc[q] = "done"},
                           !.fresh = (schema = FreshSchema)]

\* the tables as they are once the current step has been taken
SnapNow ==
    [taken |-> TRUE, courses |-> sced_course_details',
     mappings |-> course_certification_mappings']

(***************************************************************************)
(* POST /api/v1/admin/upload-csv                                           *)
(***************************************************************************)
\* server.ts:275-277
mappingFields(row) ==
    [courseCode   |-> OrElse(Get(row, "Course Code (Course ID)"), Get(row, "course_code")),
     certAreaCode |-> OrElse(Get(row, "Certification Area Code"), Get(row, "certification_area_code")),
     certAreaDesc |-> OrElse(Get(row, "Certification Area Description"),
                             Get(row, "certification_area_description"))]

\* server.ts:307-312
courseFields(row) ==
    [courseCode   |-> OrElse(Get(row, "Course Code (Course ID)"), Get(row, "course_code")),
     courseDesc   |-> OrElse(Get(row, "Course Code Description"), Get(row, "course_code_description")),
     fullDesc     |-> OrElse(Get(row, "Course Description"), Get(row, "course_description")),
     subjectArea  |-> OrElse(Get(row, "Course Subject Area"), Get(row, "course_subject_area")),
     courseLevel  |-> OrElse(Get(row, "Course Level"), Get(row, "course_level")),
     cteIndicator |-> OrElse(OrElse(Get(row, "CTE Indicator"), Get(row, "CTE_IND")),
                             Get(row, "cte_indicator"))]

\* mutant: only the machine-readable column name is recognised
hasCourseCertMapping_MachineNameOnly(firstRow) ==
    "certification_area_code" \in DOMAIN firstRow

\* server.ts:268
hasCourseCertMapping(firstRow) ==
    "Certification Area Code" \in DOMAIN firstRow \/ "certification_area_code" \in DOMAIN firstRow

\* mutant: the course code is not among the required fields
RowHasRequiredFields_NoCode(isMapping, row) ==
    IF isMapping
    THEN LET f == mappingFields(row)
         IN  Truthy(f.certAreaCode) /\ Truthy(f.certAreaDesc)
    ELSE LET f == courseFields(row)
         IN  Truthy(f.courseDesc)

\* the if that guards the loop body (server.ts:279, 314)
RowHasRequiredFields(isMapping, row) ==
    IF isMapping
    THEN LET f == mappingFields(row)
         IN  Truthy(f.courseCode) /\ Truthy(f.certAreaCode) /\ Truthy(f.certAreaDesc)
    ELSE LET f == courseFields(row)
         IN  Truthy(f.courseCode) /\ Truthy(f.courseDesc)

\* the first row at or after from whose loop body issues a query
NextQueried(results, isMapping, from) ==
    IF \E k \in from..Len(results) : RowHasRequiredFields(isMapping, results[k])
    THEN CHOOSE k \in from..Len(results) :
            /\ RowHasRequiredFields(isMapping, results[k])
            /\ \A j \in from..(k - 1) : ~RowHasRequiredFields(isMapping, results[j])
    ELSE Len(results) + 1

\* mutant: the existence check is ignored
InsertWanted_Always(existing) == TRUE

\* if (!existing) (server.ts:289, 321)
InsertWanted(existing) == ~existing

\* mutant: the row is counted before its insert is known to have succeeded
CountInsert_Attempts(recordsProcessed, threw) == recordsProcessed + 1

\* recordsProcessed after the insert statement of a row returned or threw
CountInsert(recordsProcessed, threw) ==
    IF threw THEN recordsProcessed ELSE recordsProcessed + 1

\* mutant: an error in one row ends the loop
AfterRowError_Abort(i, n) == n + 1

\* where the handler goes when a row's query threw: the catch inside the
\* loop swallows the error and the loop goes on with the next row
AfterRowError(i, n) == i + 1

\* the response after the loops (server.ts:339-346)
UploadSuccess(recordsProcessed) ==
    [status |-> 200, success |-> TRUE, recordsProcessed |-> recordsProcessed]

\* mutant: the catch answers with its fallback text
UploadFailure_Generic(message) ==
    [status |-> 500, success |-> FALSE, message |-> "Failed to process CSV file"]

\* the handler's catch (server.ts:348-359)
UploadFailure(message) ==
    [status |-> 500, success |-> FALSE, message |-> message]

\* the Express error handler (server.ts:494-500)
ErrorHandlerResponse ==
    [status |-> 500, success |-> FALSE, message |-> "Internal server error"]

\* if (!req.file) (server.ts:237-242)
NoFileResponse == [status |-> 400, success |-> FALSE, message |-> "No file uploaded"]

\* the error a failing read of the temporary file rejects the promise with
ReadError == "EIO: i/o error, read"

\* fs.unlinkSync(path) on the files in uploads/
unlinkSync(files, r) == files \ {r}

\* mutant: the catch leaves the temporary file where it is
CatchCleanup_Skipped(files, r) == files

\* if (req.file && fs.existsSync(req.file.path)) fs.unlinkSync(req.file.path)
\* (server.ts:352-354)
CatchCleanup(files, r) == IF r \in files THEN unlinkSync(files, r) ELSE files

\* the rest of the handler from loop index from on, up to the next query it
\* awaits or to the response: l are the locals, h the request's history
UploadContinue(r, l, h, from) ==
    LET n  == Len(l.results)
        k  == NextQueried(l.results, l.hasCourseCertMapping, from)
        h2 == [h EXCEPT !.visited = @ \o [j \in 1..(Min(k, n) - from + 1) |-> from + j - 1]]
    IN  /\ hist' = [hist EXCEPT ![r] = h2]
        /\ IF k <= n
           THEN /\ pc' = [pc EXCEPT ![r] = "check"]
                /\ loc' = [loc EXCEPT ![r] = [l EXCEPT !.i = k]]
                /\ UNCHANGED <<uploads, res, snap>>
           ELSE /\ pc' = [pc EXCEPT ![r] = "done"]
                /\ loc' = [loc EXCEPT ![r] = [l EXCEPT !.i = k]]
                /\ uploads' = unlinkSync(uploads, r)
                /\ res' = [res EXCEPT ![r] = UploadSuccess(l.recordsProcessed)]
                /\ snap' = [snap EXCEPT ![r] = SnapNow]

\* upload.single('file') on a request with a file part: multer stores the
\* file and calls the handler, or passes its error to the error handler
\* (server.ts:41-53, 235, 494-500)
Upload(r) ==
    /\ CanStart(r)
    /\ UNCHANGED <<tables, loc, writer>>
    /\ \E u \in UploadRequests :
          /\ req' = [req EXCEPT ![r] = [kind |-> "upload"] @@ u]
          /\ IF multerAccepts(u)
             THEN /\ uploads' = uploads \cup {r}
                  /\ pc' = [pc EXCEPT ![r] = "parse"]
                  /\ hist' = [hist EXCEPT ![r] = [Started(r, @) EXCEPT !.handler = TRUE]]
                  /\ UNCHANGED <<res, snap>>
             ELSE /\ pc' = [pc EXCEPT ![r] = "done"]
                  /\ res' = [res EXCEPT ![r] = ErrorHandlerResponse]
                  /\ snap' = [snap EXCEPT ![r] = SnapNow]
                  /\ hist' = [hist EXCEPT ![r] = Started(r, @)]
                  /\ UNCHANGED uploads

\* upload.single('file') on a request without a file part: the handler
\* answers 400 (server.ts:237-242)
UploadNoFile(r) ==
    /\ CanStart(r)
    /\ UNCHANGED <<tables, uploads, loc, writer>>
    /\ req' = [req EXCEPT ![r] = [kind |-> "uploadNoFile"]]
    /\ hist' = [hist EXCEPT ![r] = [Started(r, @) EXCEPT !.handler = TRUE]]
    /\ pc' = [pc EXCEPT ![r] = "done"]
    /\ res' = [res EXCEPT ![r] = NoFileResponse]
    /\ snap' = [snap EXCEPT ![r] = SnapNow]

\* the file has been read, or the read stream has failed (server.ts:252-270)
Parse(r) ==
    /\ pc[r] = "parse"
    /\ UNCHANGED <<tables, req, writer>>
    /\ \E readFails \in BOOLEAN :
          LET results == csvParser(req[r].file)
          IN  IF readFails
              THEN /\ pc' = [pc EXCEPT ![r] = "done"]
                   /\ uploads' = CatchCleanup(uploads, r)
                   /\ res' = [res EXCEPT ![r] = UploadFailure(ReadError)]
                   /\ snap' = [snap EXCEPT ![r] = SnapNow]
                   /\ hist' = [hist EXCEPT ![r].error = ReadError]
                   /\ UNCHANGED loc
              ELSE IF Len(results) = 0
              THEN /\ pc' = [pc EXCEPT ![r] = "done"]
                   /\ uploads' = CatchCleanup(uploads, r)
                   /\ res' = [res EXCEPT ![r] = UploadFailure("No data found in CSV file")]
                   /\ snap' = [snap EXCEPT ![r] = SnapNow]
                   /\ hist' = [hist EXCEPT ![r].parsed = TRUE]
                   /\ UNCHANGED loc
              ELSE UploadContinue(r,
                       [results |-> results, i |-> 1, recordsProcessed |-> 0,
                        hasCourseCertMapping |-> hasCourseCertMapping(results[1])],
                       [hist[r] EXCEPT !.parsed = TRUE], 1)

\* the existence query of row i has run (server.ts:282-289, 317-321)
Check(r) ==
    /\ pc[r] = "check"
    /\ UNCHANGED <<tables, req, writer>>
    /\ LET l   == loc[r]
           row == l.results[l.i]
           tableMissing == IF l.hasCourseCertMapping THEN ~schema.mappings ELSE ~schema.courses
           existing ==
               IF l.hasCourseCertMapping
               THEN MappingKeyExists(course_certification_mappings,
                        mappingFields(row).courseCode, mappingFields(row).certAreaCode)
               ELSE CourseKeyExists(sced_course_details, courseFields(row).courseCode)
       IN  IF tableMissing
           THEN UploadContinue(r, l, [hist[r] EXCEPT !.failedRows = @ \cup {l.i}],
                               AfterRowError(l.i, Len(l.results)))
           ELSE IF InsertWanted(existing)
           THEN /\ pc' = [pc EXCEPT ![r] = "insert"]
                /\ UNCHANGED <<uploads, loc, res, hist, snap>>
           ELSE UploadContinue(r, l, hist[r], l.i + 1)

\* the insert statement of row i has run (server.ts:290-299, 322-334)
Insert(r) ==
    /\ pc[r] = "insert"
    /\ UNCHANGED <<schema, req>>
    /\ LET l   == loc[r]
           row == l.results[l.i]
           m   == mappingFields(row)
           c   == courseFields(row)
           newMapping == Mapping(m.courseCode, m.certAreaCode, m.certAreaDesc)
           newCourse  == Course(c.courseCode, c.courseDesc, Column(c.fullDesc), Column(c.subjectArea),
                                Column(c.courseLevel), Column(c.cteIndicator))
           threw ==
               IF l.hasCourseCertMapping
               THEN InsertMappingsFails(schema, sced_course_details,
                                        course_certification_mappings, <<newMapping>>)
               ELSE InsertCoursesFails(schema, sced_course_details, <<newCourse>>)
           l2  == [l EXCEPT !.recordsProcessed = CountInsert(@, threw)]
       IN  IF threw
           THEN /\ UNCHANGED <<sced_course_details, course_certification_mappings, writer>>
                /\ UploadContinue(r, l2, [hist[r] EXCEPT !.failedRows = @ \cup {l.i}],
                                  AfterRowError(l.i, Len(l.results)))
           ELSE /\ IF l.hasCourseCertMapping
                   THEN /\ course_certification_mappings' =
                               InsertRows(course_certification_mappings,
                                   WithIds(<<newMapping>>, Len(course_certification_mappings)))
                        /\ writer' = [writer EXCEPT !.mappings = Append(@, r)]
                        /\ UNCHANGED sced_course_details
                   ELSE /\ sced_course_details' = InsertRows(sced_course_details, <<newCourse>>)
                        /\ writer' = [writer EXCEPT !.courses = Append(@, r)]
                        /\ UNCHANGED course_certification_mappings
                /\ UploadContinue(r, l2, hist[r], l.i + 1)

(***************************************************************************)
(* POST /api/v1/setup                                                      *)
(***************************************************************************)
SetupSuccess == [status |-> 200, success |-> TRUE]
SetupFailure == [status |-> 500, success |-> FALSE, message |-> "Failed to setup database"]

\* mutant: the emptiness test is inverted
SeedWanted_Inverted(count) == count # 0

\* if (Number(existingCourses?.count) === 0) (server.ts:437)
SeedWanted(count) == count = 0

\* mutant: the error of ADD CONSTRAINT reaches the handler's catch
AfterConstraintError_Rethrow == "respond"

\* what the catch around ADD CONSTRAINT does with the error: it logs it and
\* the handler goes on with the count query (server.ts:429-432)
AfterConstraintError == "count"

SetupRespond(r, response) ==
    /\ pc' = [pc EXCEPT ![r] = "done"]
    /\ res' = [res EXCEPT ![r] = response]
    /\ snap' = [snap EXCEPT ![r] = SnapNow]

\* CREATE TABLE IF NOT EXISTS sced_course_details (server.ts:402-411)
SetupCreateCourses(r) ==
    /\ CanStart(r)
    /\ req' = [req EXCEPT ![r] = [kind |-> "setup"]]
    /\ hist' = [hist EXCEPT ![r] = Started(r, @)]
    /\ schema' = [schema EXCEPT !.courses = TRUE]
    /\ pc' = [pc EXCEPT ![r] = "createMappings"]
    /\ UNCHANGED <<sced_course_details, course_certification_mappings, uploads,
                   loc, res, writer, snap>>

\* CREATE TABLE IF NOT EXISTS course_certification_mappings (server.ts:413-420)
SetupCreateMappings(r) ==
    /\ pc[r] = "createMappings"
    /\ schema' = [schema EXCEPT !.mappings = TRUE]
    /\ pc' = [pc EXCEPT ![r] = "addConstraint"]
    /\ UNCHANGED <<sced_course_details, course_certification_mappings, uploads,
                   req, loc, res, writer, hist, snap>>

\* ALTER TABLE ... ADD CONSTRAINT unique_course_cert, in its own try
\* (server.ts:423-432)
SetupAddConstraint(r) ==
    /\ pc[r] = "addConstraint"
    /\ IF AddConstraintError(schema, course_certification_mappings) # "none"
       THEN /\ hist' = [hist EXCEPT ![r].constraintError =
                            AddConstraintError(schema, course_certification_mappings)]
            /\ UNCHANGED schema
            /\ IF AfterConstraintError = "count"
               THEN /\ pc' = [pc EXCEPT ![r] = "count"]
                    /\ UNCHANGED <<res, snap, sced_course_details, course_certification_mappings>>
               ELSE /\ UNCHANGED <<sced_course_details, course_certification_mappings>>
                    /\ SetupRespond(r, SetupFailure)
       ELSE /\ schema' = [schema EXCEPT !.unique = TRUE]
            /\ pc' = [pc EXCEPT ![r] = "count"]
            /\ UNCHANGED <<res, snap, hist, sced_course_details, course_certification_mappings>>
    /\ UNCHANGED <<uploads, req, loc, writer>>

\* SELECT count(*) FROM sced_course_details (server.ts:435-437, 473-476)
SetupCount(r) ==
    /\ pc[r] = "count"
    /\ UNCHANGED <<tables, uploads, req, writer, hist>>
    /\ LET existingCourses == Len(sced_course_details)
       IN  IF SeedWanted(existingCourses)
           THEN /\ pc' = [pc EXCEPT ![r] = "insertCourses"]
                /\ loc' = [loc EXCEPT ![r] = [existingCourses |-> existingCourses]]
                /\ UNCHANGED <<res, snap>>
           ELSE /\ loc' = [loc EXCEPT ![r] = [existingCourses |-> existingCourses]]
                /\ SetupRespond(r, SetupSuccess)

\* INSERT of the three sample courses (server.ts:438-463)
SetupInsertCourses(r) ==
    /\ pc[r] = "insertCourses"
    /\ UNCHANGED <<schema, course_certification_mappings, uploads, req, loc>>
    /\ IF InsertCoursesFails(schema, sced_course_details, SeedCourses)
       THEN /\ UNCHANGED <<sced_course_details, writer>>
            /\ hist' = [hist EXCEPT ![r].error =
                            InsertCoursesError(schema, sced_course_details, SeedCourses)]
            /\ SetupRespond(r, SetupFailure)
       ELSE /\ sced_course_details' = InsertRows(sced_course_details, SeedCourses)
            /\ writer' = [writer EXCEPT !.courses = @ \o [i \in 1..Len(SeedCourses) |-> r]]
            /\ pc' = [pc EXCEPT ![r] = "insertMappings"]
            /\ UNCHANGED <<res, snap, hist>>

\* INSERT of the four sample mappings (server.ts:465-476)
SetupInsertMappings(r) ==
    /\ pc[r] = "insertMappings"
    /\ UNCHANGED <<schema, sced_course_details, uploads, req, loc>>
    /\ IF InsertMappingsFails(schema, sced_course_details,
                              course_certification_mappings, SeedMappings)
       THEN /\ UNCHANGED <<course_certification_mappings, writer>>
            /\ hist' = [hist EXCEPT ![r].error =
                            InsertMappingsError(schema, sced_course_details,
                                                course_certification_mappings, SeedMappings)]
            /\ SetupRespond(r, SetupFailure)
       ELSE /\ course_certification_mappings' =
                   InsertRows(course_certification_mappings,
                       WithIds(SeedMappings, Len(course_certification_mappings)))
            /\ writer' = [writer EXCEPT !.mappings = @ \o [i \in 1..Len(SeedMappings) |-> r]]
            /\ UNCHANGED hist
            /\ SetupRespond(r, SetupSuccess)

(***************************************************************************)
(* knex query builders.  A builder is mutable: limit(), offset() and       *)
(* first() change the builder they are called on and return it; clone()    *)
(* copies every clause, LIMIT and OFFSET included; clearSelect() and       *)
(* clearOrder() drop only the column list and the ORDER BY.                *)
(***************************************************************************)
Builder(filter) == [filter |-> filter, limit |-> NoLimit, offset |-> 0]
limit(q, n)  == [q EXCEPT !.limit = n]
offset(q, n) == [q EXCEPT !.offset = n]
clone(q)     == q
\* first(): LIMIT 1, and the caller gets the first row or undefined
first(q)     == limit(q, 1)

\* the rows a SELECT built by q returns, given the rows its WHERE keeps
RunSelect(q, matching) == Window(matching, q.limit, q.offset)

\* the rows of q.clone().clearSelect().clearOrder().count('* as count').first():
\* the aggregate yields one row, to which LIMIT and OFFSET then apply
RunCountFirst(q, matching) ==
    LET c == first(clone(q))
    IN  Window(<<[count |-> Len(matching)]>>, c.limit, c.offset)

\* Number(total?.count || 0)
TotalOf(countRows) == IF countRows = <<>> THEN 0 ELSE countRows[1].count

Pagination(page, lim, total) ==
    [page |-> page, limit |-> lim, total |-> total, totalPages |-> Ceil(total, lim)]

\* data.map(course => ({ id: course.course_code, ...course }))
WithCourseId(data) == [i \in 1..Len(data) |-> [id |-> data[i].course_code] @@ data[i]]

ReadSuccess(data, pagination) ==
    [status |-> 200, success |-> TRUE, data |-> WithCourseId(data), pagination |-> pagination]
ReadFailure(message) == [status |-> 500, success |-> FALSE, message |-> message]

ReadRespond(r, response) ==
    /\ pc' = [pc EXCEPT ![r] = "done"]
    /\ res' = [res EXCEPT ![r] = response]
    /\ snap' = [snap EXCEPT ![r] = SnapNow]

(***************************************************************************)
(* GET /api/v1/sced/search                                                 *)
(***************************************************************************)
\* the WHERE clause of the search, for one row (server.ts:88-90)
SearchHit(c, search) ==
    LET pattern == "%" \o search \o "%"
    IN  \/ ILike(c.course_code_description, pattern)
        \/ ILike(c.course_description, pattern)
        \/ ILike(c.course_code, pattern)

\* the course rows the model's requests can store, and for each search term
\* of the model the rows among them that SearchHit keeps (computed once)
StorableCourses ==
    SeqRange(SeedCourses)
    \cup {LET c == courseFields(csvParser([header |-> CourseHeader, lines |-> <<l>>])[1])
          IN  Course(c.courseCode, c.courseDesc, Column(c.fullDesc), Column(c.subjectArea),
                     Column(c.courseLevel), Column(c.cteIndicator)) : l \in CourseLines}
    \cup {LET c == courseFields(csvParser([header |-> MixedHeader, lines |-> <<l>>])[1])
          IN  Course(c.courseCode, c.courseDesc, Column(c.fullDesc), Column(c.subjectArea),
                     Column(c.courseLevel), Column(c.cteIndicator)) : l \in MixedLines}

SearchHits ==
    [search \in SearchTerms \ {""} |-> {c \in StorableCourses : SearchHit(c, search)}]

\* the rows the WHERE clause of the search keeps (server.ts:87-91)
SearchMatching(courses, search) ==
    IF Truthy(search)
    THEN LET Hit(c) == IF search \in DOMAIN SearchHits /\ c \in StorableCourses
                       THEN c \in SearchHits[search]
                       ELSE SearchHit(c, search)
         IN  SelectSeq(courses, Hit)
    ELSE courses

\* the data query has run (server.ts:82-93)
SearchData(r) ==
    /\ CanStart(r)
    /\ UNCHANGED <<tables, uploads, writer>>
    /\ \E search \in SearchTerms, page \in PageParams, lim \in LimitParams :
          LET query == offset(limit(Builder(search), lim), (page - 1) * lim)
          IN  /\ req' = [req EXCEPT ![r] = [kind |-> "search", search |-> search,
                                            page |-> page, limit |-> lim]]
              /\ IF ~schema.courses
                 THEN /\ ReadRespond(r, ReadFailure("Failed to search SCED courses"))
                      /\ hist' = [hist EXCEPT ![r] =
                            [Started(r, @) EXCEPT !.error = RelationMissing("sced_course_details")]]
                      /\ UNCHANGED loc
                 ELSE /\ loc' = [loc EXCEPT ![r] =
                            [query |-> query,
                             data  |-> RunSelect(query, SearchMatching(sced_course_details, search))]]
                      /\ pc' = [pc EXCEPT ![r] = "searchCount"]
                      /\ hist' = [hist EXCEPT ![r] = Started(r, @)]
                      /\ UNCHANGED <<res, snap>>

\* the count query has run and the response is sent (server.ts:94-108)
SearchCount(r) ==
    /\ pc[r] = "searchCount"
    /\ UNCHANGED <<tables, uploads, req, loc, writer, hist>>
    /\ LET total == RunCountFirst(loc[r].query,
                        SearchMatching(sced_course_details, req[r].search))
       IN  ReadRespond(r, ReadSuccess(loc[r].data,
                              Pagination(req[r].page, req[r].limit, TotalOf(total))))

(***************************************************************************)
(* GET /api/v1/certifications/name/:name/cte-courses                       *)
(***************************************************************************)
\* the course columns of the join rows the WHERE clause keeps
\* (server.ts:159-170)
CteMatching(courses, mappings, name) ==
    LET Hit(m) == /\ m.certification_area_description = name
                  /\ \E j \in 1..Len(courses) :
                        /\ courses[j].course_code = m.course_code
                        /\ courses[j].cte_indicator = "Yes"
        ms == SelectSeq(mappings, Hit)
    IN  [i \in 1..Len(ms) |->
            courses[CHOOSE j \in 1..Len(courses) : courses[j].course_code = ms[i].course_code]]

\* the data query has run (server.ts:154-172)
CteData(r) ==
    /\ CanStart(r)
    /\ UNCHANGED <<tables, uploads, writer>>
    /\ \E raw \in CteNames, page \in PageParams, lim \in LimitParams :
          LET name    == decodeURIComponent(raw)       \* req.params.name, decoded by the router
              decoded == decodeURIComponent(name)
              query   == offset(limit(Builder(decoded), lim), (page - 1) * lim)
          IN  /\ name # URIError
              /\ req' = [req EXCEPT ![r] = [kind |-> "cte", name |-> name,
                                            page |-> page, limit |-> lim]]
              /\ IF decoded = URIError \/ ~schema.courses \/ ~schema.mappings
                 THEN /\ ReadRespond(r, ReadFailure("Failed to load CTE courses for certification"))
                      /\ hist' = [hist EXCEPT ![r] =
                            [Started(r, @) EXCEPT !.error =
                                IF decoded = URIError THEN "URI malformed"
                                ELSE IF ~schema.mappings
                                THEN RelationMissing("course_certification_mappings")
                                ELSE RelationMissing("sced_course_details")]]
                      /\ UNCHANGED loc
                 ELSE /\ loc' = [loc EXCEPT ![r] =
                            [query |-> query,
                             data  |-> RunSelect(query,
                                          CteMatching(sced_course_details,
                                                      course_certification_mappings, decoded))]]
                      /\ pc' = [pc EXCEPT ![r] = "cteCount"]
                      /\ hist' = [hist EXCEPT ![r] = Started(r, @)]
                      /\ UNCHANGED <<res, snap>>

\* the count query has run and the response is sent (server.ts:173-187)
CteCount(r) ==
    /\ pc[r] = "cteCount"
    /\ UNCHANGED <<tables, uploads, req, loc, writer, hist>>
    /\ LET total == RunCountFirst(loc[r].query,
                        CteMatching(sced_course_details, course_certification_mappings,
                                    loc[r].query.filter))
       IN  ReadRespond(r, ReadSuccess(loc[r].data,
                              Pagination(req[r].page, req[r].limit, TotalOf(total))))

(***************************************************************************)
(* GET /api/v1/certifications/search                                       *)
(***************************************************************************)
\* .distinct() adds DISTINCT to the column list of the builder
distinct(q) == [distinct |-> TRUE] @@ q

\* mutant: clearSelect() keeps DISTINCT and the count is taken over the
\* distinct pairs
clearSelect_KeepsDistinct(q) == q

\* .clearSelect() drops the column list, DISTINCT with it
clearSelect(q) == IF "distinct" \in DOMAIN q THEN [q EXCEPT !.distinct = FALSE] ELSE q

\* select certification_area_code as code, certification_area_description as name
CodeAndName(mappings) ==
    [i \in 1..Len(mappings) |->
        [code |-> mappings[i].certification_area_code,
         name |-> mappings[i].certification_area_description]]

\* DISTINCT: each row once, in the order of first occurrence
Distinct(rows) ==
    LET keep == {i \in 1..Len(rows) : \A j \in 1..(i - 1) : rows[j] # rows[i]}
        nth(k) == CHOOSE i \in keep : Cardinality({j \in keep : j < i}) = k - 1
    IN  [k \in 1..Cardinality(keep) |-> nth(k)]

DistinctRows(rows) == [k \in 1..Len(Distinct(rows)) |-> rows[Distinct(rows)[k]]]

\* the mapping rows the WHERE clause keeps (server.ts:126-128)
CertMatching(mappings, search) ==
    IF Truthy(search) /\ search # "*"
    THEN SelectSeq(mappings,
             LAMBDA m : ILike(m.certification_area_description, "%" \o search \o "%"))
    ELSE mappings

\* the rows of the data query (server.ts:130)
CertRunSelect(q, matching) ==
    Window(IF q.distinct THEN DistinctRows(CodeAndName(matching)) ELSE CodeAndName(matching),
           q.limit, q.offset)

\* the rows of the count query (server.ts:131)
CertRunCountFirst(q, matching) ==
    LET c == first(clearSelect(clone(q)))
        n == IF c.distinct THEN Len(DistinctRows(CodeAndName(matching))) ELSE Len(matching)
    IN  Window(<<[count |-> n]>>, c.limit, c.offset)

\* data.map(item => ({ ...item, course_count: '0' }))
WithCourseCount(data) == [i \in 1..Len(data) |-> data[i] @@ [course_count |-> "0"]]

CertSearchSuccess(data, total, page, lim) ==
    [status |-> 200, success |-> TRUE, data |-> WithCourseCount(data),
     total |-> total, page |-> page, limit |-> lim]

\* the data query has run (server.ts:119-130)
CertSearchData(r) ==
    /\ CanStart(r)
    /\ UNCHANGED <<tables, uploads, writer>>
    /\ \E search \in CertSearchTerms, page \in PageParams, lim \in LimitParams :
          LET query == offset(limit(distinct(Builder(search)), lim), (page - 1) * lim)
          IN  /\ req' = [req EXCEPT ![r] = [kind |-> "certSearch", search |-> search,
                                            page |-> page, limit |-> lim]]
              /\ IF ~schema.mappings
                 THEN /\ ReadRespond(r, ReadFailure("Failed to search certifications"))
                      /\ hist' = [hist EXCEPT ![r] =
                            [Started(r, @) EXCEPT
                                !.error = RelationMissing("course_certification_mappings")]]
                      /\ UNCHANGED loc
                 ELSE /\ loc' = [loc EXCEPT ![r] =
                            [query |-> query,
                             data  |-> CertRunSelect(query,
                                          CertMatching(course_certification_mappings, search))]]
                      /\ pc' = [pc EXCEPT ![r] = "certSearchCount"]
                      /\ hist' = [hist EXCEPT ![r] = Started(r, @)]
                      /\ UNCHANGED <<res, snap>>

\* the count query has run and the response is sent (server.ts:131-142)
CertSearchCount(r) ==
    /\ pc[r] = "certSearchCount"
    /\ UNCHANGED <<tables, uploads, req, loc, writer, hist>>
    /\ LET total == CertRunCountFirst(loc[r].query,
                        CertMatching(course_certification_mappings, req[r].search))
       IN  ReadRespond(r, CertSearchSuccess(loc[r].data, TotalOf(total),
                                            req[r].page, req[r].limit))

(***************************************************************************)
(* GET /api/v1/sced/courses/code/:code                                     *)
(***************************************************************************)
NotFound == [status |-> 404, success |-> FALSE, message |-> "Course not found"]

\* .where('course_code', code).first()
CourseByCode(courses, code) ==
    LET hits == SelectSeq(courses, LAMBDA c : c.course_code = code)
    IN  IF hits = <<>> THEN undefined ELSE hits[1]

\* mutant: the certifications of every course are attached
CertificationsOf_AllCourses(mappings, code) ==
    [i \in 1..Len(mappings) |-> mappings[i].certification_area_description]

\* the mappings of the course, mapped to their descriptions
\* (server.ts:214-216, 223)
CertificationsOf(mappings, code) ==
    LET certifications == SelectSeq(mappings, LAMBDA m : m.course_code = code)
    IN  [i \in 1..Len(certifications) |-> certifications[i].certification_area_description]

ByCodeSuccess(course, certifications) ==
    [status |-> 200, success |-> TRUE,
     data |-> [id |-> course.course_code, certifications |-> certifications] @@ course]

\* the course query has run (server.ts:199-211)
ByCodeCourse(r) ==
    /\ CanStart(r)
    /\ UNCHANGED <<tables, uploads, writer>>
    /\ \E code \in CourseCodes :
          /\ req' = [req EXCEPT ![r] = [kind |-> "byCode", code |-> code]]
          /\ IF ~schema.courses
             THEN /\ ReadRespond(r, ReadFailure("Failed to load course details"))
                  /\ hist' = [hist EXCEPT ![r] =
                        [Started(r, @) EXCEPT !.error = RelationMissing("sced_course_details")]]
                  /\ UNCHANGED loc
             ELSE IF SelectSeq(sced_course_details, LAMBDA c : c.course_code = code) = <<>>
             THEN /\ ReadRespond(r, NotFound)
                  /\ hist' = [hist EXCEPT ![r] = Started(r, @)]
                  /\ UNCHANGED loc
             ELSE /\ loc' = [loc EXCEPT ![r] =
                        [course |-> CourseByCode(sced_course_details, code)]]
                  /\ pc' = [pc EXCEPT ![r] = "byCodeCertifications"]
                  /\ hist' = [hist EXCEPT ![r] = Started(r, @)]
                  /\ UNCHANGED <<res, snap>>

\* the mappings query has run and the response is sent (server.ts:214-225)
ByCodeCertifications(r) ==
    /\ pc[r] = "byCodeCertifications"
    /\ UNCHANGED <<tables, uploads, req, loc, writer>>
    /\ IF ~schema.mappings
       THEN /\ ReadRespond(r, ReadFailure("Failed to load course details"))
            /\ hist' = [hist EXCEPT ![r].error =
                            RelationMissing("course_certification_mappings")]
       ELSE /\ ReadRespond(r, ByCodeSuccess(loc[r].course,
                                  CertificationsOf(course_certification_mappings, req[r].code)))
            /\ UNCHANGED hist

(***************************************************************************)
(* GET /api/v1/admin/stats                                                 *)
(***************************************************************************)
\* the catch of the stats handler (server.ts:389-394)
StatsFailure(message) ==
    [status |-> 500, success |-> FALSE,
     message |-> "Failed to load database stats: " \o message]

\* COUNT(DISTINCT certification_area_description)
CountDistinctDescriptions(mappings) ==
    Cardinality({mappings[i].certification_area_description : i \in 1..Len(mappings)} \ {NULL})

\* the course count has run (server.ts:367-368)
StatsCourses(r) ==
    /\ CanStart(r)
    /\ UNCHANGED <<tables, uploads, writer>>
    /\ req' = [req EXCEPT ![r] = [kind |-> "stats"]]
    /\ IF ~schema.courses
       THEN /\ ReadRespond(r, StatsFailure(RelationMissing("sced_course_details")))
            /\ hist' = [hist EXCEPT ![r] =
                  [Started(r, @) EXCEPT !.error = RelationMissing("sced_course_details")]]
            /\ UNCHANGED loc
       ELSE /\ loc' = [loc EXCEPT ![r] = [totalCourses |-> Len(sced_course_details)]]
            /\ pc' = [pc EXCEPT ![r] = "statsMappings"]
            /\ hist' = [hist EXCEPT ![r] = Started(r, @)]
            /\ UNCHANGED <<res, snap>>

\* the mapping count has run (server.ts:371-372)
StatsMappings(r) ==
    /\ pc[r] = "statsMappings"
    /\ UNCHANGED <<tables, uploads, req, writer>>
    /\ IF ~schema.mappings
       THEN /\ ReadRespond(r, StatsFailure(RelationMissing("course_certification_mappings")))
            /\ hist' = [hist EXCEPT ![r].error =
                            RelationMissing("course_certification_mappings")]
            /\ UNCHANGED loc
       ELSE /\ loc' = [loc EXCEPT ![r] =
                  [totalCourses |-> loc[r].totalCourses,
                   totalMappings |-> Len(course_certification_mappings)]]
            /\ pc' = [pc EXCEPT ![r] = "statsCertifications"]
            /\ UNCHANGED <<res, snap, hist>>

\* the distinct count has run and the response is sent (server.ts:375-388)
StatsCertifications(r) ==
    /\ pc[r] = "statsCertifications"
    /\ UNCHANGED <<tables, uploads, req, loc, writer, hist>>
    /\ ReadRespond(r,
          [status |-> 200, success |-> TRUE,
           data |-> [totalCourses |-> loc[r].totalCourses,
                     totalCertifications |->
                         CountDistinctDescriptions(course_certification_mappings),
                     totalMappings |-> loc[r].totalMappings]])

(***************************************************************************)
(* GET /health                                                             *)
(***************************************************************************)
\* the message of the error SELECT 1 throws when the database cannot be
\* reached
ConnectionError == "connect ECONNREFUSED"

HealthOK == [status |-> 200, state |-> "OK", database |-> "connected"]

\* the catch of the health handler (server.ts:67-76)
HealthError(message) ==
    [status |-> 500, state |-> "ERROR", database |-> "disconnected", error |-> message]

\* SELECT 1 has run or has failed (server.ts:56-77)
Health(r) ==
    /\ CanStart(r)
    /\ UNCHANGED <<tables, uploads, loc, writer>>
    /\ req' = [req EXCEPT ![r] = [kind |-> "health"]]
    /\ \E reachable \in BOOLEAN :
          IF reachable
          THEN /\ ReadRespond(r, HealthOK)
               /\ hist' = [hist EXCEPT ![r] = Started(r, @)]
          ELSE /\ ReadRespond(r, HealthError(ConnectionError))
               /\ hist' = [hist EXCEPT ![r] = [Started(r, @) EXCEPT !.error = ConnectionError]]

(***************************************************************************)
(* The system.                                                             *)
(***************************************************************************)
Next ==
    \E r \in Reqs :
        \/ SearchData(r)
        \/ SearchCount(r)
        \/ CteData(r)
        \/ CteCount(r)
        \/ CertSearchData(r)
        \/ CertSearchCount(r)
        \/ ByCodeCourse(r)
        \/ ByCodeCertifications(r)
        \/ StatsCourses(r)
        \/ StatsMappings(r)
        \/ StatsCertifications(r)
        \/ Health(r)
        \/ Upload(r)
        \/ UploadNoFile(r)
        \/ Parse(r)
        \/ Check(r)
        \/ Insert(r)
        \/ SetupCreateCourses(r)
        \/ SetupCreateMappings(r)
        \/ SetupAddConstraint(r)
        \/ SetupCount(r)
        \/ SetupInsertCourses(r)
        \/ SetupInsertMappings(r)

Spec == Init /\ [][Next]_vars

TypeOK ==
    /\ Len(writer.courses) = Len(sced_course_details)
    /\ Len(writer.mappings) = Len(course_certification_mappings)
    /\ \A r \in Reqs : (pc[r] = "done") = (res[r] # NoResponse)

(***************************************************************************)
(* Vocabulary of the properties.                                           *)
(***************************************************************************)
Done(r, kind) == pc[r] = "done" /\ req[r].kind = kind

\* an import whose handler has read its file and has answered
Parsed(r) == Done(r, "upload") /\ hist[r].parsed

\* the request answered with a success envelope
Succeeded(r) == pc[r] = "done" /\ res[r].status = 200

\* r2 was issued after r1 had been answered
Sequential(r1, r2) == r1 \in hist[r2].doneBefore

IsWriter(q) == req[q].kind \in {"upload", "setup"}

\* no writer other than r1 and r2 ran between the start of r1 and the end
\* of r2
NoOtherWriter(r1, r2) ==
    \A q \in Reqs \ {r1, r2} :
        \/ ~IsWriter(q)
        \/ pc[q] = "done" /\ q \in hist[r1].doneBefore
        \/ r2 \in hist[q].doneBefore

\* the positions of the rows request r inserted
CoursesBy(r)  == {i \in 1..Len(writer.courses) : writer.courses[i] = r}
MappingsBy(r) == {i \in 1..Len(writer.mappings) : writer.mappings[i] = r}
RowsBy(r)     == Cardinality(CoursesBy(r)) + Cardinality(MappingsBy(r))

\* the rows the WHERE clause of a finished read keeps on the tables as they
\* were when it answered
MatchingAtResponse(r) ==
    IF req[r].kind = "search"
    THEN SearchMatching(snap[r].courses, req[r].search)
    ELSE CteMatching(snap[r].courses, snap[r].mappings, loc[r].query.filter)

IsPagedRead(r) == req[r].kind \in {"search", "cte"}

(***************************************************************************)
(* C1.  For Search Courses and CTE Courses By Certification Name, for      *)
(* every table content, filter, page >= 1 and limit >= 1, the total of     *)
(* the response is the number of all rows matching the filter, whatever    *)
(* the page.                                                               *)
(*                                                                         *)
(* The code does not do this: the count query is a clone of the builder    *)
(* that limit() and offset() have already changed, so it still carries     *)
(* OFFSET (page-1)*limit; the one aggregate row is skipped for page >= 2   *)
(* and total is reported as 0.                                             *)
(***************************************************************************)
C1_TotalIsMatchCount ==
    \A r \in Reqs :
        (Succeeded(r) /\ IsPagedRead(r))
            => res[r].pagination.total = Len(MatchingAtResponse(r))

(***************************************************************************)
(* C2.  A page of Search Courses beyond the last page returns an empty     *)
(* data list, with total the number of matching rows and totalPages        *)
(* ceil(total / limit), the values page 1 of the same search reports.      *)
(*                                                                         *)
(* The data list is empty, but total and totalPages are 0 whenever the     *)
(* offset is not 0 (the defect of C1).                                     *)
(***************************************************************************)
C2_BeyondLastPage ==
    \A r \in Reqs :
        (/\ Succeeded(r)
         /\ req[r].kind = "search"
         /\ req[r].page > Ceil(Len(MatchingAtResponse(r)), req[r].limit))
            => /\ res[r].data = <<>>
               /\ res[r].pagination.total = Len(MatchingAtResponse(r))
               /\ res[r].pagination.totalPages =
                      Ceil(Len(MatchingAtResponse(r)), req[r].limit)

(***************************************************************************)
(* Vocabulary of the import properties.                                    *)
(***************************************************************************)
IsMappingFile(file) ==
    Len(csvParser(file)) > 0 /\ hasCourseCertMapping(csvParser(file)[1])

\* the indices of the rows of file whose loop body issues a query
QueriedRows(file) ==
    {k \in 1..Len(csvParser(file)) :
        RowHasRequiredFields(IsMappingFile(file), csvParser(file)[k])}

\* a row with the key of row k of file is among the first n rows of the
\* table the file goes to
KeyStored(file, k, courses, mappings) ==
    IF IsMappingFile(file)
    THEN MappingKeyExists(mappings, mappingFields(csvParser(file)[k]).courseCode,
                          mappingFields(csvParser(file)[k]).certAreaCode)
    ELSE CourseKeyExists(courses, courseFields(csvParser(file)[k]).courseCode)

\* the rows of the tables at r's response that r did not insert itself
CoursesOfOthers(r) ==
    SelectSeq([i \in 1..Len(snap[r].courses) |-> [row |-> snap[r].courses[i], w |-> writer.courses[i]]],
              LAMBDA e : e.w # r)
MappingsOfOthers(r) ==
    SelectSeq([i \in 1..Len(snap[r].mappings) |-> [row |-> snap[r].mappings[i], w |-> writer.mappings[i]]],
              LAMBDA e : e.w # r)

\* row k of r's file had its key in the table without r's doing
KeyStoredByOthers(r, k) ==
    KeyStored(req[r].file, k,
              [i \in 1..Len(CoursesOfOthers(r)) |-> CoursesOfOthers(r)[i].row],
              [i \in 1..Len(MappingsOfOthers(r)) |-> MappingsOfOthers(r)[i].row])

\* r1 and r2 are two imports of the same file, the second issued after the
\* first was answered, with no other writer around them
SameFileTwice(r1, r2) ==
    /\ r1 # r2
    /\ Done(r1, "upload") /\ Done(r2, "upload")
    /\ Succeeded(r1) /\ Succeeded(r2)
    /\ req[r1].file = req[r2].file
    /\ Sequential(r1, r2)
    /\ NoOtherWriter(r1, r2)

SecondImportAddsNothing(r1, r2) ==
    /\ res[r2].recordsProcessed = 0
    /\ snap[r2].courses = snap[r1].courses
    /\ snap[r2].mappings = snap[r1].mappings

\* some row of r's file has its required fields and a key that was not in
\* the table before r
HasNewRow(r) == \E k \in QueriedRows(req[r].file) : ~KeyStoredByOthers(r, k)

C4_CountIsRowsInserted ==
    \A r \in Reqs :
        /\ (pc[r] \in {"check", "insert"}) => loc[r].recordsProcessed = RowsBy(r)
        /\ (Done(r, "upload") /\ Succeeded(r)) => res[r].recordsProcessed = RowsBy(r)

\* an import that skipped a row, found a row present or had an insert
\* rejected, and still inserted another
C4_Witness ==
    \E r \in Reqs :
        /\ Done(r, "upload") /\ Succeeded(r)
        /\ res[r].recordsProcessed > 0
        /\ res[r].recordsProcessed < Len(csvParser(req[r].file))
        /\ Cardinality(QueriedRows(req[r].file)) = Len(csvParser(req[r].file))

(***************************************************************************)
(* C5 as stated.  Under any interleaving of imports, an import inserts a   *)
(* mapping row only if no row with the same (courseCode,                   *)
(* certificationAreaCode) exists and a course row only if no row with the  *)
(* same code exists, so imports never leave two rows with one key, with    *)
(* or without the uniqueness constraint on the mapping table.              *)
(*                                                                         *)
(* Without the constraint the check and the insert of two imports          *)
(* interleave: both find the key absent and both insert it.                *)
(***************************************************************************)
IsImport(w) == w \in Reqs /\ req[w].kind = "upload"

SameMappingKey(a, b) ==
    /\ a.course_code = b.course_code
    /\ a.certification_area_code = b.certification_area_code

C5_ImportsNeverDuplicate_Stated ==
    /\ \A i, j \in 1..Len(course_certification_mappings) :
          (i < j /\ IsImport(writer.mappings[j]))
              => ~SameMappingKey(course_certification_mappings[i],
                                 course_certification_mappings[j])
    /\ \A i, j \in 1..Len(sced_course_details) :
          (i < j /\ IsImport(writer.courses[j]))
              => sced_course_details[i].course_code # sced_course_details[j].course_code

(***************************************************************************)
(* C5 as amended.  An import inserts a course row only if no row with the  *)
(* same code exists, and a mapping row only if its own existence check     *)
(* found no row with the same key: while the uniqueness constraint is      *)
(* present no two mapping rows share a key, and without it a mapping row   *)
(* an import inserts can repeat only the key of a row that a request       *)
(* running concurrently with that import inserted (never a row that was    *)
(* there when the import began, nor one of its own).                       *)
(***************************************************************************)
C5_ImportsDuplicateOnlyInRaces ==
    /\ ~DuplicateCourseCodes(sced_course_details)
    /\ schema.unique => ~DuplicateMappingKeys(course_certification_mappings)
    /\ \A i, j \in 1..Len(course_certification_mappings) :
          (/\ i < j
           /\ IsImport(writer.mappings[j])
           /\ SameMappingKey(course_certification_mappings[i],
                             course_certification_mappings[j]))
              => writer.mappings[i] \in
                    Reqs \ ({writer.mappings[j]} \cup hist[writer.mappings[j]].doneBefore)

\* two overlapping imports of one mapping file under the constraint: one
\* inserted the row, the other's insert was rejected
C5_Witness ==
    \E r1, r2 \in Reqs :
        /\ r1 # r2
        /\ Done(r1, "upload") /\ Done(r2, "upload")
        /\ req[r1].file = req[r2].file
        /\ IsMappingFile(req[r1].file)
        /\ ~Sequential(r1, r2) /\ ~Sequential(r2, r1)
        /\ MappingsBy(r1) # {}
        /\ hist[r2].failedRows # {}
        /\ schema.unique

(***************************************************************************)
(* C6.  Once the uniqueness constraint on (courseCode,                     *)
(* certificationAreaCode) is present, every reachable state under any      *)
(* interleaving of setup and import requests has at most one mapping row   *)
(* per pair; and a repeated setup call, whose constraint addition fails    *)
(* because the constraint already exists, still completes successfully.    *)
(***************************************************************************)
RepeatedSetup(r) ==
    /\ Done(r, "setup")
    /\ \E q \in hist[r].doneBefore : req[q].kind = "setup"

C6_UniqueOnceConstrained ==
    /\ schema.unique => ~DuplicateMappingKeys(course_certification_mappings)
    /\ \A r \in Reqs :
          (RepeatedSetup(r) /\ hist[r].constraintError = "exists") => Succeeded(r)

\* a second setup call that found the constraint in place and succeeded
C6_Witness ==
    \E r \in Reqs :
        /\ RepeatedSetup(r)
        /\ hist[r].constraintError = "exists"
        /\ Succeeded(r)
        /\ schema.unique
        /\ Len(course_certification_mappings) > 0

(***************************************************************************)
(* C7.  Setup is idempotent: from a database without tables, two setup     *)
(* calls in sequence leave exactly the 3 seed courses and the 4 seed       *)
(* mappings; the state after the second call is the state after the first. *)
(***************************************************************************)
SetupTwice(r1, r2) ==
    /\ r1 # r2
    /\ Done(r1, "setup") /\ Done(r2, "setup")
    /\ hist[r1].fresh
    /\ Sequential(r1, r2)
    /\ NoOtherWriter(r1, r2)

WithoutIds(mappings) ==
    [i \in 1..Len(mappings) |->
        Mapping(mappings[i].course_code, mappings[i].certification_area_code,
                mappings[i].certification_area_description)]

C7_SetupIdempotent ==
    \A r1, r2 \in Reqs :
        SetupTwice(r1, r2)
            => /\ snap[r2].courses = SeedCourses
               /\ WithoutIds(snap[r2].mappings) = SeedMappings
               /\ snap[r2] = snap[r1]

\* two setup calls in sequence on a database without tables
C7_Witness ==
    \E r1, r2 \in Reqs :
        /\ SetupTwice(r1, r2)
        /\ Succeeded(r1) /\ Succeeded(r2)
        /\ Len(snap[r2].courses) = 3
        /\ Len(snap[r2].mappings) = 4

(***************************************************************************)
(* C8.  In an import, a failure while checking or inserting one row does   *)
(* not abort the import: every later row is still processed in file        *)
(* order, the rows inserted before the failure stay inserted, and the      *)
(* request ends with a success response carrying the partial count.        *)
(***************************************************************************)
C8_RowFailureDoesNotAbort ==
    \A r \in Reqs :
        (Done(r, "upload") /\ hist[r].failedRows # {})
            => /\ Succeeded(r)
               /\ hist[r].visited = [k \in 1..Len(csvParser(req[r].file)) |-> k]
               /\ res[r].recordsProcessed = RowsBy(r)
               /\ RowsBy(r) + Cardinality(hist[r].failedRows)
                      <= Cardinality(QueriedRows(req[r].file))

\* an import whose first row failed and whose later row was inserted
C8_Witness ==
    \E r \in Reqs :
        /\ Done(r, "upload")
        /\ 1 \in hist[r].failedRows
        /\ Succeeded(r)
        /\ res[r].recordsProcessed = 1
        /\ RowsBy(r) = 1

(***************************************************************************)
(* C9 as stated.  A row with no, or an empty, course code under every      *)
(* accepted column name is skipped: not inserted, not counted, and it      *)
(* does not fail the import; every other valid row of the file that is     *)
(* not already present is inserted.                                        *)
(*                                                                         *)
(* The last part fails for a valid row whose existence check or insert     *)
(* fails (no table yet, or the foreign key of the migration schema).       *)
(***************************************************************************)
HasRowWithoutCode(file) ==
    \E k \in 1..Len(csvParser(file)) :
        ~Truthy(OrElse(Get(csvParser(file)[k], "Course Code (Course ID)"),
                       Get(csvParser(file)[k], "course_code")))

\* no row that r inserted lacks a course code, and r's count is the number
\* of rows it inserted, all of them rows with their required fields
RowsWithoutCodeSkipped(r) ==
    /\ Succeeded(r)
    /\ \A i \in CoursesBy(r) : Truthy(sced_course_details[i].course_code)
    /\ \A i \in MappingsBy(r) : Truthy(course_certification_mappings[i].course_code)
    /\ res[r].recordsProcessed = RowsBy(r)
    /\ RowsBy(r) <= Cardinality(QueriedRows(req[r].file))

C10_EmptyFileFails ==
    \A r \in Reqs :
        (Parsed(r) /\ Len(csvParser(req[r].file)) = 0)
            => /\ res[r].status = 500
               /\ res[r].success = FALSE
               /\ res[r].message = "No data found in CSV file"
               /\ RowsBy(r) = 0
               /\ r \notin uploads

C10_NoWriteOnEmptyFile ==
    [][\A r \in Reqs :
          (pc[r] = "parse" /\ Len(csvParser(req[r].file)) = 0 /\ pc'[r] # "parse")
              => /\ UNCHANGED tables
                 /\ pc'[r] = "done"]_vars

\* a header-only file answered with the error, on a database with rows
C10_Witness ==
    \E r \in Reqs :
        /\ Parsed(r)
        /\ req[r].file # EmptyFile
        /\ Len(csvParser(req[r].file)) = 0
        /\ res[r].status = 500
        /\ Len(sced_course_details) > 0

NotCsv(u) ==
    /\ u.mimetype # "text/csv"
    /\ ~(Len(u.originalname) >= 4
         /\ SubSeq(u.originalname, Len(u.originalname) - 3, Len(u.originalname)) = ".csv")

TooLarge(u) == u.size > 50 * 1024 * 1024

C12_NonCsvRejected ==
    \A r \in Reqs :
        (req[r].kind = "upload" /\ (NotCsv(req[r]) \/ TooLarge(req[r])))
            => /\ pc[r] = "done"
               /\ res[r].status = 500
               /\ res[r].success = FALSE
               /\ ~hist[r].handler
               /\ ~hist[r].parsed
               /\ loc[r] = NoLocals
               /\ RowsBy(r) = 0
               /\ r \notin uploads

\* a PDF and an oversized CSV, both refused on a database on which the
\* import of their content would have added a row
C12_Witness ==
    \E r1, r2 \in Reqs :
        /\ req[r1].kind = "upload" /\ NotCsv(req[r1]) /\ ~TooLarge(req[r1])
        /\ req[r2].kind = "upload" /\ TooLarge(req[r2]) /\ ~NotCsv(req[r2])
        /\ res[r1] = ErrorHandlerResponse
        /\ res[r2] = ErrorHandlerResponse
        /\ schema.mappings
        /\ ~MappingKeyExists(course_certification_mappings, "20114", "9020")
        /\ CourseKeyExists(sced_course_details, "20114")

(***************************************************************************)
(* C13.  For every endpoint other than /health, a storage failure or an    *)
(* unexpected exception raised inside the handler produces a 500 response  *)
(* whose error message is a fixed, endpoint-specific text that does not    *)
(* contain the message of the underlying failure; only /health returns     *)
(* the underlying message to the caller.                                   *)
(*                                                                         *)
(* The code does not do this for two endpoints: the catch of the stats     *)
(* handler appends the message of the error to its text, and the catch of  *)
(* the upload handler answers with the message of the error itself.        *)
(***************************************************************************)
Contains(s, sub) ==
    \E i \in 1..(Len(s) - Len(sub) + 1) : SubSeq(s, i, i + Len(sub) - 1) = sub

\* the fixed text of each endpoint's failure response
FixedMessage(kind) ==
    CASE kind = "search"     -> "Failed to search SCED courses"
      [] kind = "certSearch" -> "Failed to search certifications"
      [] kind = "cte"        -> "Failed to load CTE courses for certification"
      [] kind = "byCode"     -> "Failed to load course details"
      [] kind = "upload"     -> "Failed to process CSV file"
      [] kind = "stats"      -> "Failed to load database stats"
      [] kind = "setup"      -> "Failed to setup database"

\* the handler of r caught a storage failure or an unexpected exception
CaughtFailure(r) == pc[r] = "done" /\ hist[r].error # "none"

C13_FailuresAreGeneric ==
    \A r \in Reqs :
        CaughtFailure(r)
            => /\ res[r].status = 500
               /\ IF req[r].kind = "health"
                  THEN res[r].error = hist[r].error
                  ELSE /\ res[r].message = FixedMessage(req[r].kind)
                       /\ ~Contains(res[r].message, hist[r].error)

(***************************************************************************)
(* C14.  Get Course By Code answers 404 exactly when no course row has     *)
(* the given code; otherwise it returns that course with certifications    *)
(* the list of the certification_area_description values of all mapping    *)
(* rows of that course code (for the seed code "03001": Biology with       *)
(* "Biology (Grades 5-9)" and "Biology (Grades 7-12)").  A query on a      *)
(* table that does not exist yet is a storage failure, answered 500.       *)
(***************************************************************************)
DescriptionsOfCode(mappings, code) ==
    LET idx == {i \in 1..Len(mappings) : mappings[i].course_code = code}
        nth(k) == CHOOSE i \in idx : Cardinality({j \in idx : j < i}) = k - 1
    IN  [k \in 1..Cardinality(idx) |-> mappings[nth(k)].certification_area_description]

C14_CourseByCode ==
    \A r \in Reqs :
        Done(r, "byCode")
            => /\ res[r].status \in {200, 404, 500}
               /\ res[r].status = 500 => hist[r].fresh
               /\ res[r].status = 404
                     => \A i \in 1..Len(snap[r].courses) :
                            snap[r].courses[i].course_code # req[r].code
               /\ res[r].status = 200
                     => /\ \E i \in 1..Len(snap[r].courses) :
                              /\ snap[r].courses[i].course_code = req[r].code
                              /\ \A f \in DOMAIN snap[r].courses[i] :
                                     res[r].data[f] = snap[r].courses[i][f]
                        /\ res[r].data.id = req[r].code
                        /\ res[r].data.certifications =
                               DescriptionsOfCode(snap[r].mappings, req[r].code)

\* a lookup of the seed course 03001 and a lookup of a code that no row has
C14_Witness ==
    \E r1, r2 \in Reqs :
        /\ Done(r1, "byCode") /\ req[r1].code = "03001" /\ res[r1].status = 200
        /\ res[r1].data.course_code_description = "Biology"
        /\ res[r1].data.certifications = <<"Biology (Grades 5-9)", "Biology (Grades 7-12)">>
        /\ Done(r2, "byCode") /\ res[r2].status = 404
        /\ Len(sced_course_details) > 0

(***************************************************************************)
(* C15.  CTE Courses By Certification Name returns exactly the courses     *)
(* that have cte_indicator "Yes" and are joined through a mapping whose    *)
(* certification_area_description equals the URL-decoded name exactly; on  *)
(* the seed data the name "Agriculture (Grades 5-9)" returns exactly the   *)
(* course 20114, and a name with no matching course returns an empty list  *)
(* with total 0.                                                           *)
(*                                                                         *)
(* The code does not do this for a name that contains a percent sign: the  *)
(* router has already decoded the path parameter, and the handler decodes  *)
(* it a second time, which throws for "100% Online" (answered 500).        *)
(***************************************************************************)
\* no import or setup ran while r was being served
Undisturbed(r) ==
    \A q \in Reqs \ {r} :
        \/ ~IsWriter(q)
        \/ q \in hist[r].doneBefore
        \/ r \in hist[q].doneBefore

\* the join rows with the description req[r].name and a CTE course, on the
\* tables as they were when r was answered
CteExpected(r) ==
    LET ms == SelectSeq(snap[r].mappings,
                  LAMBDA m : /\ m.certification_area_description = req[r].name
                             /\ \E j \in 1..Len(snap[r].courses) :
                                   /\ snap[r].courses[j].course_code = m.course_code
                                   /\ snap[r].courses[j].cte_indicator = "Yes")
    IN  [i \in 1..Len(ms) |->
            snap[r].courses[CHOOSE j \in 1..Len(snap[r].courses) :
                                snap[r].courses[j].course_code = ms[i].course_code]]

CteReturnsExactly(r) ==
    /\ Succeeded(r)
    /\ res[r].data =
          WithCourseId(Window(CteExpected(r), req[r].limit, (req[r].page - 1) * req[r].limit))
    /\ CteExpected(r) = <<>> => res[r].pagination.total = 0

C15_CteByExactName ==
    \A r \in Reqs :
        (Done(r, "cte") /\ Undisturbed(r) /\ ~hist[r].fresh) => CteReturnsExactly(r)

(***************************************************************************)
(* C16.  For every non-empty search term, Search Courses matches exactly   *)
(* the courses in which the term occurs as a case-insensitive literal      *)
(* substring of course_code_description, course_description or             *)
(* course_code: no character of the term has another meaning, and a course *)
(* in which the term does not occur is never counted or returned.          *)
(*                                                                         *)
(* The code does not do this: the term is pasted into an ILIKE pattern     *)
(* unescaped, so "_" stands for any one character and "%" for any run of   *)
(* characters; "bi_l" finds Biology.                                       *)
(***************************************************************************)
RECURSIVE ToLower(_)
ToLower(s) ==
    IF Len(s) = 0 THEN ""
    ELSE IF Len(s) = 1 THEN LowerChar(s)
    ELSE LET mid  == Len(s) \div 2
             left == ToLower(SubSeq(s, 1, mid))
         IN  left \o ToLower(SubSeq(s, mid + 1, Len(s)))

\* term occurs in v, letters compared without regard to case
OccursIn(term, v) == v # NULL /\ Contains(ToLower(v), ToLower(term))

LiteralHit(c, term) ==
    \/ OccursIn(term, c.course_code_description)
    \/ OccursIn(term, c.course_description)
    \/ OccursIn(term, c.course_code)

\* for each search term of the model, the storable rows it occurs in
LiteralHits ==
    [term \in SearchTerms \ {""} |-> {c \in StorableCourses : LiteralHit(c, term)}]

LiteralMatching(courses, term) ==
    SelectSeq(courses, LAMBDA c : IF c \in StorableCourses
                                  THEN c \in LiteralHits[term]
                                  ELSE LiteralHit(c, term))

WithoutId(row) == [f \in DOMAIN row \ {"id"} |-> row[f]]

SearchIsLiteral(r) ==
    /\ \A i \in 1..Len(res[r].data) :
          WithoutId(res[r].data[i]) \in SeqRange(LiteralMatching(snap[r].courses, req[r].search))
    /\ res[r].pagination.total <= Len(LiteralMatching(snap[r].courses, req[r].search))
    /\ Undisturbed(r)
          => res[r].data =
                WithCourseId(Window(LiteralMatching(snap[r].courses, req[r].search),
                                    req[r].limit, (req[r].page - 1) * req[r].limit))

C16_SearchTermIsLiteral ==
    \A r \in Reqs :
        (Succeeded(r) /\ req[r].kind = "search" /\ req[r].search # "")
            => SearchIsLiteral(r)

(***************************************************************************)
(* C17.  Search Courses with an empty search term applies no predicate:    *)
(* for every table content, page and limit it returns the same rows and    *)
(* the same total as an unfiltered scan of the course table with the same  *)
(* page and limit, that is, the page window of all the rows and the number *)
(* of all the rows.                                                        *)
(*                                                                         *)
(* The rows are those of the unfiltered scan, but the total is 0 on every  *)
(* page after the first (the defect of C1).                                *)
(***************************************************************************)
UnfilteredScan(r) ==
    /\ \A i \in 1..Len(res[r].data) :
          WithoutId(res[r].data[i]) \in SeqRange(snap[r].courses)
    /\ Undisturbed(r)
          => res[r].data =
                WithCourseId(Window(snap[r].courses, req[r].limit,
                                    (req[r].page - 1) * req[r].limit))
    /\ res[r].pagination.total = Len(snap[r].courses)

C17_EmptyTermIsUnfiltered ==
    \A r \in Reqs :
        (Succeeded(r) /\ req[r].kind = "search" /\ req[r].search = "")
            => UnfilteredScan(r)

(***************************************************************************)
(* C18.  Search Certifications returns distinct                            *)
(* (certification_area_code, certification_area_description) pairs, and    *)
(* its total is the number of distinct pairs that match the filter, not    *)
(* the number of mapping rows: a pair that several mapping rows of         *)
(* different courses share is returned once and counted once.              *)
(*                                                                         *)
(* The pairs returned are distinct, but the total is not their number:     *)
(* clearSelect() drops DISTINCT together with the column list, so the      *)
(* count is taken over the mapping rows; and the count query inherits the  *)
(* OFFSET of the data query (the defect of C1).                            *)
(***************************************************************************)
\* the distinct pairs among the mapping rows the filter keeps, on the table
\* as it was when r was answered
MatchingPairs(r) ==
    {[code |-> m.certification_area_code, name |-> m.certification_area_description] :
        m \in SeqRange(CertMatching(snap[r].mappings, req[r].search))}

PairOf(item) == [code |-> item.code, name |-> item.name]

PairsDistinctAndCounted(r) ==
    /\ \A i, j \in 1..Len(res[r].data) :
          i # j => PairOf(res[r].data[i]) # PairOf(res[r].data[j])
    /\ \A i \in 1..Len(res[r].data) : PairOf(res[r].data[i]) \in MatchingPairs(r)
    /\ res[r].total = Cardinality(MatchingPairs(r))

C18_CertSearchCountsPairs ==
    \A r \in Reqs :
        (Succeeded(r) /\ req[r].kind = "certSearch") => PairsDistinctAndCounted(r)

(***************************************************************************)
(* C19.  The type of an uploaded CSV is decided once per file, from the    *)
(* keys of its first row only: if the first row has the column             *)
(* "Certification Area Code" or "certification_area_code", every row is    *)
(* processed as certification-mapping data and only the mapping table can  *)
(* change; otherwise every row is processed as course data and only the    *)
(* course table can change.  No import request modifies both tables.       *)
(***************************************************************************)
FirstRowHasCertCode(file) ==
    \/ "Certification Area Code" \in DOMAIN csvParser(file)[1]
    \/ "certification_area_code" \in DOMAIN csvParser(file)[1]

C19_TypeDecidedOnce ==
    \A r \in Reqs :
        /\ req[r].kind \in {"upload", "uploadNoFile"}
              => (CoursesBy(r) = {} \/ MappingsBy(r) = {})
        /\ (req[r].kind = "upload" /\ hist[r].parsed /\ Len(csvParser(req[r].file)) > 0)
              => /\ loc[r].hasCourseCertMapping = FirstRowHasCertCode(req[r].file)
                 /\ IF FirstRowHasCertCode(req[r].file)
                    THEN CoursesBy(r) = {}
                    ELSE MappingsBy(r) = {}

\* two imports of files with the columns of both kinds: one whose first
\* row has the certification column added a mapping and no course, one
\* whose first row ends before it added a course and no mapping
C19_Witness ==
    \E r1, r2 \in Reqs :
        /\ Done(r1, "upload") /\ Done(r2, "upload")
        /\ req[r1].file.header = MixedHeader /\ req[r2].file.header = MixedHeader
        /\ Len(req[r1].file.lines) = 2 /\ Len(req[r2].file.lines) = 2
        /\ FirstRowHasCertCode(req[r1].file)
        /\ ~FirstRowHasCertCode(req[r2].file)
        /\ Len(req[r1].file.lines[2]) = 2
        /\ Len(req[r2].file.lines[2]) = 4
        /\ MappingsBy(r1) # {} /\ CoursesBy(r1) = {}
        /\ CoursesBy(r2) # {} /\ MappingsBy(r2) = {}

(***************************************************************************)
(* C20.  No operation updates or deletes a row: across every step of any   *)
(* interleaving of requests, every course row and every mapping row that   *)
(* exists keeps existing with all its field values unchanged, and the      *)
(* steps of the read endpoints (search, certification search, CTE by name, *)
(* lookup by code, stats, health) leave both tables unchanged.             *)
(***************************************************************************)
IsPrefix(a, b) == Len(a) <= Len(b) /\ SubSeq(b, 1, Len(a)) = a

ReadKinds == {"search", "certSearch", "cte", "byCode", "stats", "health"}

C20_RowsOnlyAdded ==
    [][/\ IsPrefix(sced_course_details, sced_course_details')
       /\ IsPrefix(course_certification_mappings, course_certification_mappings')
       /\ \A r \in Reqs :
             (pc'[r] # pc[r] /\ req'[r].kind \in ReadKinds)
                 => UNCHANGED <<schema, sced_course_details, course_certification_mappings>>
      ]_vars

\* an import has added rows behind the rows that were there before, while
\* a read request was being served
C20_Witness ==
    \E r1, r2 \in Reqs :
        /\ Done(r1, "upload") /\ RowsBy(r1) > 0
        /\ pc[r2] = "done" /\ req[r2].kind \in ReadKinds /\ res[r2].status = 200
        /\ r1 \notin hist[r2].doneBefore
        /\ r2 \notin hist[r1].doneBefore
        /\ Len(sced_course_details) >= Len(SeedCourses)
        /\ SubSeq(sced_course_details, 1, Len(SeedCourses)) = SeedCourses
        /\ \A i \in 1..Len(SeedCourses) : writer.courses[i] = Preexisting

(***************************************************************************)
(* C21.  For any interleaving of two concurrent setup requests on a        *)
(* database without tables (both may read a course count of 0 before      *)
(* either inserts), the final state holds exactly the 3 seed courses and   *)
(* the 4 seed mappings: the seed mappings are never inserted twice and     *)
(* never left missing while the seed courses are present.                  *)
(***************************************************************************)
\* r1 and r2 are two setup calls that overlapped, the first of them issued
\* on a database without tables, both answered, and no other writer has
\* been issued since they began
ConcurrentSetups(r1, r2) ==
    /\ r1 # r2
    /\ Done(r1, "setup") /\ Done(r2, "setup")
    /\ hist[r1].fresh
    /\ ~Sequential(r1, r2) /\ ~Sequential(r2, r1)
    /\ \A q \in Reqs \ {r1, r2} :
          ~IsWriter(q) \/ (q \in hist[r1].doneBefore /\ q \in hist[r2].doneBefore)

C21_ConcurrentSetupSeedsOnce ==
    \A r1, r2 \in Reqs :
        ConcurrentSetups(r1, r2)
            => /\ sced_course_details = SeedCourses
               /\ WithoutIds(course_certification_mappings) = SeedMappings
               /\ Succeeded(r1) \/ Succeeded(r2)

\* two overlapping setup calls that both read a course count of 0: one
\* inserted the seed rows, the insert of the other was rejected
C21_Witness ==
    \E r1, r2 \in Reqs :
        /\ ConcurrentSetups(r1, r2)
        /\ loc[r1].existingCourses = 0
        /\ loc[r2].existingCourses = 0
        /\ Succeeded(r1)
        /\ res[r2].status = 500
        /\ Len(sced_course_details) = 3
        /\ Len(course_certification_mappings) = 4

====
